---- MODULE Spec2Model ----
(***************************************************************************)
(* State-machine model of the QuadrantServerConnections backend:           *)
(*   - DocumentUploader.upload   (backend/services/document_uploader.py)   *)
(*   - QdrantConnector           (backend/services/qdrant_connector.py)    *)
(*   - PDFProcessor, TextChunker (frontend/backend/services/*.py)          *)
(*   - query_endpoint, create_collection_endpoint (main.py)                *)
(* The vector store, the image directory, the embedding service and the   *)
(* generative service are the environment: their failures are             *)
(* nondeterministic choices of the actions that call them.                 *)
(*                                                                         *)
(* Texts are sequences of tokens.  A token is a record [kind, v, page, k]: *)
(* a piece of page text that the splitter emits as one chunk, a run of     *)
(* whitespace, or a literal of the program.  Scores are in hundredths.     *)
(***************************************************************************)
EXTENDS Integers, Sequences, FiniteSets, TLC

\* ------------------------------------------------------------- bounds
\* A run ingests pages, pieces of text and images: MaxWork of them in all.
MaxWork == 5

\* ------------------------------------------------- program constants
SCORE_THRESHOLD == 75
QUERY_LIMIT == 5
IMAGE_DIR == "./stored_images"
DEFAULT_COLLECTION == "my_docs"

Collections == {DEFAULT_COLLECTION}
FileNames == {<<"a", ".pdf">>}
Versions == {"v1", "v2"}
Scores == {SCORE_THRESHOLD - 1, SCORE_THRESHOLD, SCORE_THRESHOLD + 1}

\* ------------------------------------------------------------- tokens
Lit(s) == [kind |-> s, v |-> "", page |-> 0, k |-> 0]
WS == Lit(" ")
Piece(v, p, k) == [kind |-> "text", v |-> v, page |-> p, k |-> k]
SEPARATOR == Lit("\n\n---\n\n")
NO_INFO == <<Lit("No relevant information found in the documents.")>>
FALLBACK_PREFIX == Lit("Error generating answer from context. Using raw context instead.\n\n")
LLM_TEXT == Lit("generated answer")

\* str.strip(): drop leading and trailing whitespace tokens
RECURSIVE LStrip(_)
LStrip(t) == IF t # <<>> /\ Head(t) = WS THEN LStrip(Tail(t)) ELSE t

RECURSIVE RStrip(_)
RStrip(t) ==
    IF t # <<>> /\ t[Len(t)] = WS THEN RStrip(SubSeq(t, 1, Len(t) - 1)) ELSE t

Strip(t) == RStrip(LStrip(t))

\* "sep".join(texts), texts a sequence of token sequences
RECURSIVE Join(_, _)
Join(sep, texts) ==
    IF texts = <<>> THEN <<>>
    ELSE IF Len(texts) = 1 THEN texts[1]
    ELSE texts[1] \o <<sep>> \o Join(sep, Tail(texts))

Min(a, b) == IF a <= b THEN a ELSE b

\* ------------------------------------------------------------ encodings
JsonDumps(list) == [json |-> list]
JsonLoads(s) == s.json
B64Encode(data) == [b64 |-> data]
Embed(text) == [embedding |-> text]

\* os.path.splitext(file_name)[0]
BaseName(file_name) == file_name[1]

\* --------------------------------------------------------------- inputs
\* The text of page p of a document whose content is version v: empty,
\* whitespace only, or n pieces (each piece is as long as one chunk).
PageTexts(v, p) ==
    {<<>>, <<WS>>} \cup {[k \in 1..n |-> Piece(v, p, k)] : n \in 1..(MaxWork - 1)}

\* The images of page p of a document whose content is version v: image i
\* either has bytes or cannot be extracted (extract_image gives nothing).
ImageOf(v, p, i, present) ==
    [present |-> present, ext |-> "png", data |-> [v |-> v, page |-> p, i |-> i]]

ImageLists(v, p) ==
    UNION {{[i \in 1..n |-> ImageOf(v, p, i - 1, pr[i])] : pr \in [1..n -> BOOLEAN]}
           : n \in 0..(MaxWork - 1)}

PagesOf(v, p) == [text : PageTexts(v, p), images : ImageLists(v, p)]

NumPieces(page) == Len(SelectSeq(page.text, LAMBDA t : t # WS))
NumImages(page) == Len(page.images)

\* What ingesting a page adds to the run: the page, its pieces of text and
\* its images.
Cost(page) == 1 + NumPieces(page) + NumImages(page)

Ingested(u) == u.pages + u.pieces + u.images

\* The pages a document can hold at index p when `u` counts the pages,
\* pieces of text and images ingested so far.
NextPages(v, p, u) ==
    {page \in PagesOf(v, p) : Ingested(u) + Cost(page) <= MaxWork}

Ingest(u, page) ==
    [pages |-> u.pages + 1, pieces |-> u.pieces + NumPieces(page),
     images |-> u.images + NumImages(page)]

\* ------------------------------------------------------- vector store
\* client.create_collection: it returns, or it raises with a message;
\* `fault` is a failure of the store or of the connection to it.
StoreCreateCollection(ex, c, fault) ==
    IF fault THEN [raised |-> TRUE, message |-> <<"connection refused">>]
    ELSE IF c \in ex
         THEN [raised |-> TRUE, message |-> <<"collection ", c, " already exists">>]
         ELSE [raised |-> FALSE, message |-> <<>>]

\* "already exists" in str(e).lower()
MentionsAlreadyExists(message) ==
    \E i \in DOMAIN message : message[i] = " already exists"

\* Lines 21-23 without the test: every exception is raised again.
EnsureRaisesAlways(result) == result.raised

\* QdrantConnector.ensure_collection, lines 21-23: an exception that does
\* not say "already exists" is raised again.
EnsureRaises(result) ==
    result.raised /\ ~MentionsAlreadyExists(result.message)

NoStoreResult == [raised |-> FALSE, message |-> <<>>]

\* An ensure_collection that creates nothing.
EnsureCollectionLater(ex, c) == ex

\* QdrantConnector.ensure_collection when create_collection succeeds or
\* raises "already exists": the collection exists afterwards.
EnsureCollection(ex, c) == ex \cup {c}

\* The points of a collection created by this call (none), or kept as they
\* are when the collection already existed.
EnsurePoints(ex, st, c) == IF c \in ex THEN st ELSE [st EXCEPT ![c] = <<>>]

\* An insert that keeps the stored point when the id is taken.
UpsertKeepOld(old, points) ==
    LET ids == {points[i].id : i \in 1..Len(points)}
        New(id) == CHOOSE i \in 1..Len(points) : points[i].id = id
    IN [id \in DOMAIN old \cup ids |->
           IF id \in DOMAIN old
           THEN old[id]
           ELSE [vector |-> points[New(id)].vector, payload |-> points[New(id)].payload]]

\* client.upsert(points): a point replaces the stored point of the same id.
Upsert(old, points) ==
    LET ids == {points[i].id : i \in 1..Len(points)}
        New(id) == CHOOSE i \in 1..Len(points) : points[i].id = id
    IN [id \in DOMAIN old \cup ids |->
           IF id \in ids
           THEN [vector |-> points[New(id)].vector, payload |-> points[New(id)].payload]
           ELSE old[id]]

\* ------------------------------------------------------- PDFProcessor
\* Line 18 without the page number in the name.
ImagePathNoPage(file_base, page_num, i, ext) ==
    [dir |-> IMAGE_DIR,
     name |-> [base |-> file_base, page |-> 0, img |-> i, ext |-> ext]]

\* Lines 18-21: "<image_dir>/<file_base>_page<page_num>_img<i>.<ext>"
ImagePath(file_base, page_num, i, ext) ==
    [dir |-> IMAGE_DIR,
     name |-> [base |-> file_base, page |-> page_num, img |-> i, ext |-> ext]]

\* extract_images_from_page: the ordinals (0-based) of the images written
ExtractedOrdinals(images) ==
    SelectSeq([i \in 1..Len(images) |-> i], LAMBDA i : images[i].present)

\* extract_images_from_page: the returned image_paths
ExtractImagePaths(images, file_base, page_num) ==
    LET ords == ExtractedOrdinals(images)
    IN [j \in 1..Len(ords) |->
           ImagePath(file_base, page_num, ords[j] - 1, images[ords[j]].ext)]

\* Line 20 opening the file for exclusive creation: a file that is there
\* is kept as it is.
WriteImagesKeep(f, images, file_base, page_num) ==
    LET ords == ExtractedOrdinals(images)
        PathOf(j) == ImagePath(file_base, page_num, ords[j] - 1, images[ords[j]].ext)
        new == {PathOf(j) : j \in 1..Len(ords)}
        Src(p) == CHOOSE j \in 1..Len(ords) : PathOf(j) = p
    IN [p \in DOMAIN f \cup new |->
           IF p \in DOMAIN f THEN f[p] ELSE images[ords[Src(p)]].data]

\* extract_images_from_page: the image directory after the writes
WriteImages(f, images, file_base, page_num) ==
    LET ords == ExtractedOrdinals(images)
        PathOf(j) == ImagePath(file_base, page_num, ords[j] - 1, images[ords[j]].ext)
        new == {PathOf(j) : j \in 1..Len(ords)}
        Src(p) == CHOOSE j \in 1..Len(ords) : PathOf(j) = p
    IN [p \in DOMAIN f \cup new |->
           IF p \in new THEN images[ords[Src(p)]].data ELSE f[p]]

\* -------------------------------------------------------- TextChunker
\* TextChunker.chunk: the page_content of each chunk, in text order
Chunk(text) ==
    LET pieces == SelectSeq(text, LAMBDA t : t # WS)
    IN [j \in 1..Len(pieces) |-> <<pieces[j]>>]

\* ---------------------------------------------------- DocumentUploader
BuildPoint(file_name, page_num, total_chunks, content, image_meta) ==
    [id |-> total_chunks + 1,
     vector |-> Embed(content),
     payload |-> [source |-> file_name,
                  page_number |-> page_num,
                  chunk_index |-> total_chunks,
                  text |-> content,
                  associated_image_paths |-> image_meta]]

\* Lines 33-45 with the counter advanced for a failed chunk too.
EmbedChunkCountAll(st, chunk, ok, file_name, page_num, image_meta) ==
    IF ok
    THEN [st EXCEPT !.points = Append(@, BuildPoint(file_name, page_num,
                                                    st.total_chunks, chunk,
                                                    image_meta)),
                    !.total_chunks = @ + 1,
                    !.embedded = Append(@, [content |-> chunk,
                                            page_number |-> page_num,
                                            ok |-> TRUE])]
    ELSE [st EXCEPT !.total_chunks = @ + 1,
                    !.embedded = Append(@, [content |-> chunk,
                                            page_number |-> page_num,
                                            ok |-> FALSE])]

\* Lines 33-45 with the `except` removed: a failing embedder.embed aborts
\* the upload.
EmbedChunkNoCatch(st, chunk, ok, file_name, page_num, image_meta) ==
    IF ok
    THEN [st EXCEPT !.points = Append(@, BuildPoint(file_name, page_num,
                                                    st.total_chunks, chunk,
                                                    image_meta)),
                    !.total_chunks = @ + 1,
                    !.embedded = Append(@, [content |-> chunk,
                                            page_number |-> page_num,
                                            ok |-> TRUE])]
    ELSE [st EXCEPT !.raised = TRUE]

\* Lines 33-45: one chunk.  ok tells whether embedder.embed succeeded; a
\* failure is caught, printed, and the chunk is skipped.
EmbedChunk(st, chunk, ok, file_name, page_num, image_meta) ==
    IF ok
    THEN [st EXCEPT !.points = Append(@, BuildPoint(file_name, page_num,
                                                    st.total_chunks, chunk,
                                                    image_meta)),
                    !.total_chunks = @ + 1,
                    !.embedded = Append(@, [content |-> chunk,
                                            page_number |-> page_num,
                                            ok |-> TRUE])]
    ELSE [st EXCEPT !.embedded = Append(@, [content |-> chunk,
                                            page_number |-> page_num,
                                            ok |-> FALSE])]

\* Lines 32-45: the chunk loop of one page; an exception that leaves a
\* chunk's iteration ends the loop.
RECURSIVE EmbedLoop(_, _, _, _, _, _)
EmbedLoop(chunks, ok, file_name, page_num, image_meta, st) ==
    IF chunks = <<>> \/ st.raised THEN st
    ELSE EmbedLoop(Tail(chunks), Tail(ok), file_name, page_num, image_meta,
                   EmbedChunk(st, Head(chunks), Head(ok), file_name, page_num,
                              image_meta))

Summary(file_name, total_chunks, total_images) ==
    [message |-> <<file_name[1], file_name[2], " processed">>,
     chunks_stored |-> total_chunks,
     images_stored |-> total_images]

NoSummary == [message |-> <<>>, chunks_stored |-> 0, images_stored |-> 0]

NoPage == [text |-> <<>>, images |-> <<>>]

\* Line 29 with the test inverted: the pages that have text are skipped.
SkipsPageInverted(text) == Strip(text) # <<>>

\* Line 29, `if not text.strip(): continue`
SkipsPage(text) == Strip(text) = <<>>

\* Line 47 without the test: the batch is sent even when it is empty.
AlwaysUpsert(points) == TRUE

\* Line 47, `if points:`
ShouldUpsert(points) == points # <<>>

\* The locals of upload().  page is the page of the current iteration, doc
\* the pages iterated so far, written the image files written so far,
\* embedded the outcome of each embedder.embed call, in call order,
\* upserts the number of client.upsert calls made, and nonblank the number
\* of pages seen whose text has a character that is not whitespace, and
\* ensured what client.create_collection answered to ensure_collection.
IdleUpload ==
    [pc |-> "idle", file_name |-> <<"", "">>, version |-> "", page |-> NoPage,
     doc |-> <<>>, written |-> {},
     collection |-> DEFAULT_COLLECTION, page_num |-> 0, points |-> <<>>,
     total_chunks |-> 0, total_images |-> 0, embedded |-> <<>>,
     upserts |-> 0, nonblank |-> 0, ensured |-> NoStoreResult,
     error |-> "", result |-> NoSummary]

\* --------------------------------------------------------- exceptions
HTTPException(status, detail) ==
    [type |-> "HTTPException", status |-> status, detail |-> detail]

PyException(msg) == [type |-> "Exception", status |-> 0, detail |-> <<msg>>]

StatusText(status) ==
    CASE status = 400 -> "400" [] status = 404 -> "404" [] status = 500 -> "500"
      [] status = 503 -> "503" [] OTHER -> "?"

\* str(e): an HTTPException prints as "<status>: <detail>"
Str(e) ==
    IF e.type = "HTTPException" THEN <<StatusText(e.status), ": ">> \o e.detail
    ELSE e.detail

\* `except Exception` catches every exception class used here; HTTPException
\* is a subclass of Exception.
CaughtByExceptException(e) == e.type \in {"Exception", "HTTPException"}

ErrorResponse(e) ==
    [status |-> e.status, detail |-> e.detail, answer |-> <<>>, images |-> <<>>]

OkResponse(answer, images) ==
    [status |-> 200, detail |-> <<>>, answer |-> answer, images |-> images]

NoResponse == [status |-> 0, detail |-> <<>>, answer |-> <<>>, images |-> <<>>]

\* ------------------------------------------------------ query_endpoint
\* query_points(limit=QUERY_LIMIT, with_payload=True, with_vectors=False):
\* the possible results, best score first, ties in any order.
RECURSIVE InjectiveSeqs(_, _)
InjectiveSeqs(S, k) ==
    IF k = 0 THEN {<<>>}
    ELSE UNION {{<<x>> \o t : t \in InjectiveSeqs(S \ {x}, k - 1)} : x \in S}

NonIncreasing(k) ==
    {sc \in [1..k -> Scores] : \A i \in 1..(k - 1) : sc[i] >= sc[i + 1]}

SearchResults(points) ==
    LET k == Min(QUERY_LIMIT, Cardinality(DOMAIN points))
    IN {[i \in 1..k |-> [id |-> ids[i], score |-> sc[i],
                          payload |-> points[ids[i]].payload]] :
           ids \in InjectiveSeqs(DOMAIN points, k), sc \in NonIncreasing(k)}

HasPayload(hit) == DOMAIN hit.payload # {}

\* payload_data.get("text")
ChunkText(hit) == IF "text" \in DOMAIN hit.payload THEN hit.payload.text ELSE <<>>

\* Lines 168-171 moved under the score test of line 173.
AddContextGated(ctx, hit) ==
    IF HasPayload(hit) /\ ChunkText(hit) # <<>> /\ hit.score >= SCORE_THRESHOLD
    THEN Append(ctx, ChunkText(hit))
    ELSE ctx

\* Lines 168-171: the hit's text joins the context
AddContext(ctx, hit) ==
    IF HasPayload(hit) /\ ChunkText(hit) # <<>> THEN Append(ctx, ChunkText(hit))
    ELSE ctx

\* Line 173 with a strict comparison.
MeetsThresholdStrict(score) == score > SCORE_THRESHOLD

\* Line 173
MeetsThreshold(score) == score >= SCORE_THRESHOLD

IsAbs(img_path) == img_path.dir = "/"
StartsWithImageDir(img_path) == img_path.dir = IMAGE_DIR

\* Lines 179-181
ResolvePath(img_path) ==
    IF ~IsAbs(img_path) /\ ~StartsWithImageDir(img_path)
    THEN [dir |-> IMAGE_DIR, name |-> img_path.name]
    ELSE img_path

\* payload_data.get("associated_image_paths", "[]")
ImagePathsJson(hit) ==
    IF "associated_image_paths" \in DOMAIN hit.payload
    THEN hit.payload.associated_image_paths
    ELSE JsonDumps(<<>>)

JsonValid(js) == DOMAIN js = {"json"}

Range(s) == {s[i] : i \in DOMAIN s}

\* list.append in the place of set.add: the path is recorded once more
\* every time it is seen.
ListAppend(paths, p) == Append(paths, p)

\* Line 183, retrieved_image_paths.add: the set is kept as the sequence of
\* its members, and a member is not added twice.
SetAdd(paths, p) == IF p \in Range(paths) THEN paths ELSE Append(paths, p)

\* Lines 178-183: the loop over the decoded list of one hit
RECURSIVE AddImagePaths(_, _, _)
AddImagePaths(paths, image_paths_list, f) ==
    IF image_paths_list = <<>> THEN paths
    ELSE LET potential_path == ResolvePath(Head(image_paths_list))
         IN AddImagePaths(IF potential_path \in DOMAIN f
                          THEN SetAdd(paths, potential_path)
                          ELSE paths,
                          Tail(image_paths_list), f)

\* Lines 173-187: the image paths after a hit; only a hit that meets the
\* threshold has its list decoded.
HitImagePaths(paths, hit, f) ==
    IF HasPayload(hit) /\ MeetsThreshold(hit.score) /\ JsonValid(ImagePathsJson(hit))
    THEN AddImagePaths(paths, JsonLoads(ImagePathsJson(hit)), f)
    ELSE paths

\* Line 197 without the test: generation is attempted on every request.
AlwaysGenerate(ctx) == TRUE

\* Line 197, `if context_texts:`
NeedsGeneration(ctx) == ctx # <<>>

CombinedContext(ctx) == Join(SEPARATOR, ctx)

LLMResponses == {<<LLM_TEXT>>, <<WS, LLM_TEXT, WS>>}

\* Line 221 without the context appended.
FallbackWithoutContext(ctx) == <<FALLBACK_PREFIX>>

\* Line 221
FallbackAnswer(ctx) == <<FALLBACK_PREFIX>> \o CombinedContext(ctx)

\* Line 114 without the test: the request goes on with llm = None.
LlmNeverMissing(l) == FALSE

\* Line 114, `if not llm:`
LlmMissing(l) == l = "none"

\* Lines 234-242 without the os.path.exists test and the inner try: a
\* missing file raises out of the loop.
LoadOutcomeStrict(f, img_path_str) ==
    IF img_path_str \in DOMAIN f THEN "read" ELSE "raise"

\* Lines 234-242: a file that exists is read, a missing one is reported
\* and skipped.
LoadOutcome(f, img_path_str) ==
    IF img_path_str \in DOMAIN f THEN "read" ELSE "skip"

\* Deleting the element at position i of a sequence.
RemoveAt(s, i) == [j \in 1..(Len(s) - 1) |-> IF j < i THEN s[j] ELSE s[j + 1]]

LLM_NOT_INITIALIZED ==
    HTTPException(500, <<"LLM (for query augmentation) is not initialized. Check backend logs.">>)

QDRANT_FAILED == HTTPException(503, <<"Failed to query Qdrant: ", "qdrant_error">>)

EMBED_FAILED == PyException("embedding_error")

FILE_NOT_FOUND == PyException("file_not_found")

\* Lines 249-252 answering with status 503.
OuterExceptUnavailable(e) ==
    IF CaughtByExceptException(e)
    THEN HTTPException(503, <<"Query processing failed: ">> \o Str(e))
    ELSE e

\* Lines 249-252: what the outer handler makes of an exception raised in
\* the body of the endpoint
OuterExcept(e) ==
    IF CaughtByExceptException(e)
    THEN HTTPException(500, <<"Query processing failed: ">> \o Str(e))
    ELSE e

VARIABLES
    llm,            \* "ready" or "none": the module-level LLM handle
    existing,       \* the collections the vector store holds
    stored,         \* stored[c]: the points of collection c, by id
    fs,             \* the image directory: path -> bytes
    up,             \* the state of the upload call
    used,           \* pages, pieces of text and images ingested so far
    pc,             \* position of the query request
    collection_name,\* the collection the query names
    hits,           \* search_result.points
    hit_i,          \* number of hits the loop has processed
    context_texts,
    retrieved_image_paths,
    final_answer,
    pending,        \* image paths the loading loop has not visited yet
    loaded,         \* image paths the loading loop has read, in order
    encoded_images,
    calls,          \* the services this request has invoked
    response        \* what the client receives

vars == <<llm, existing, stored, fs, up, used, pc, collection_name, hits, hit_i,
          context_texts, retrieved_image_paths, final_answer, pending, loaded,
          encoded_images, calls, response>>

storeVars == <<existing, stored>>
queryVars == <<pc, collection_name, hits, hit_i, context_texts,
               retrieved_image_paths, final_answer, pending, loaded,
               encoded_images, calls, response>>

Init ==
    /\ llm \in {"ready", "none"}
    /\ existing = {}
    /\ stored = [c \in Collections |-> <<>>]
    /\ fs = <<>>
    /\ up = IdleUpload
    /\ used = [pages |-> 0, pieces |-> 0, images |-> 0]
    /\ pc = "idle"
    /\ collection_name = DEFAULT_COLLECTION
    /\ hits = <<>>
    /\ hit_i = 0
    /\ context_texts = <<>>
    /\ retrieved_image_paths = <<>>
    /\ final_answer = NO_INFO
    /\ pending = <<>>
    /\ loaded = <<>>
    /\ encoded_images = <<>>
    /\ calls = {}
    /\ response = NoResponse

\* Both handlers are `async def` and call only blocking code, so the event
\* loop runs one of them at a time.
ServerFree == up.pc = "idle" /\ pc = "idle"

\* ------------------------------------------- DocumentUploader.upload
\* Lines 14-21: ensure the collection, parse the PDF, initialise the locals.
UploadBegin ==
    /\ ServerFree
    /\ Ingested(used) < MaxWork
    /\ \E f \in FileNames, v \in Versions, cn \in Collections \cup {""},
          fault \in BOOLEAN :
         LET collection == IF cn # "" THEN cn ELSE DEFAULT_COLLECTION
             result == StoreCreateCollection(existing, collection, fault)
         IN \/ \* ensure_collection raises
               /\ EnsureRaises(result)
               /\ up' = [IdleUpload EXCEPT !.pc = "failed",
                                           !.error = "ensure_collection",
                                           !.collection = collection,
                                           !.ensured = result]
               /\ UNCHANGED storeVars
            \/ \* the collection exists now; fitz.open rejects the bytes
               /\ ~EnsureRaises(result)
               /\ existing' = EnsureCollection(existing, collection)
               /\ stored' = EnsurePoints(existing, stored, collection)
               /\ up' = [IdleUpload EXCEPT !.pc = "failed", !.error = "parse_pdf",
                                           !.collection = collection,
                                           !.ensured = result]
            \/ /\ ~EnsureRaises(result)
               /\ existing' = EnsureCollection(existing, collection)
               /\ stored' = EnsurePoints(existing, stored, collection)
               /\ up' = [IdleUpload EXCEPT !.pc = "pages", !.file_name = f,
                                           !.version = v,
                                           !.collection = collection,
                                           !.ensured = result]
    /\ UNCHANGED <<llm, fs, used>>
    /\ UNCHANGED queryVars

\* Lines 23-45: one iteration of the page loop, on the next page of the PDF.
UploadPage ==
    /\ up.pc = "pages"
    /\ \E page \in NextPages(up.version, up.page_num, used) :
         LET base_name == BaseName(up.file_name)
             images == ExtractImagePaths(page.images, base_name, up.page_num)
             image_meta == JsonDumps(images)
             text == page.text
             chunks == IF SkipsPage(text) THEN <<>> ELSE Chunk(text)
         IN /\ fs' = WriteImages(fs, page.images, base_name, up.page_num)
            /\ \E ok \in [1..Len(chunks) -> BOOLEAN] :
                 LET st == EmbedLoop(chunks, ok, up.file_name, up.page_num,
                                     image_meta,
                                     [points |-> up.points,
                                      total_chunks |-> up.total_chunks,
                                      embedded |-> up.embedded,
                                      raised |-> FALSE])
                 IN up' = [up EXCEPT !.pc = IF st.raised THEN "failed" ELSE @,
                                     !.error = IF st.raised THEN "embed" ELSE @,
                                     !.page = page,
                                     !.doc = Append(@, page),
                                     !.written = @ \cup Range(images),
                                     !.nonblank = IF \E i \in DOMAIN text : text[i] # WS
                                                  THEN @ + 1 ELSE @,
                                     !.page_num = @ + 1,
                                     !.total_images = @ + Len(images),
                                     !.points = st.points,
                                     !.total_chunks = st.total_chunks,
                                     !.embedded = st.embedded]
            /\ used' = Ingest(used, page)
    /\ UNCHANGED <<llm, existing, stored>>
    /\ UNCHANGED queryVars

\* Lines 23-28 when the page cannot be processed: extract_image, the write
\* of an image file or get_text raises after `written` images of the page
\* went to the image directory, and the exception leaves upload().
UploadPageFails ==
    /\ up.pc = "pages"
    /\ \E page \in NextPages(up.version, up.page_num, used) :
         \E written \in 0..Len(page.images) :
            /\ fs' = WriteImages(fs, SubSeq(page.images, 1, written),
                                 BaseName(up.file_name), up.page_num)
            /\ up' = [up EXCEPT !.pc = "failed", !.error = "page",
                                !.page = page, !.doc = Append(@, page),
                                !.written = @ \cup
                                    Range(ExtractImagePaths(
                                              SubSeq(page.images, 1, written),
                                              BaseName(up.file_name),
                                              up.page_num))]
            /\ used' = Ingest(used, page)
    /\ UNCHANGED <<llm, existing, stored>>
    /\ UNCHANGED queryVars

\* Lines 47-54: the bulk upsert and the summary, after the last page.
UploadFinish ==
    /\ up.pc = "pages"
    /\ up.page_num >= 1
    /\ \/ /\ ShouldUpsert(up.points)
          /\ up.collection \in existing
          /\ stored' = [stored EXCEPT ![up.collection] = Upsert(@, up.points)]
          /\ up' = [up EXCEPT !.pc = "done",
                              !.upserts = @ + 1,
                              !.result = Summary(up.file_name, up.total_chunks,
                                                 up.total_images)]
       \/ /\ ~ShouldUpsert(up.points)
          /\ stored' = stored
          /\ up' = [up EXCEPT !.pc = "done",
                              !.result = Summary(up.file_name, up.total_chunks,
                                                 up.total_images)]
       \/ \* client.upsert raises
          /\ ShouldUpsert(up.points)
          /\ stored' = stored
          /\ up' = [up EXCEPT !.pc = "failed", !.upserts = @ + 1,
                              !.error = "upsert"]
    /\ UNCHANGED <<llm, existing, fs, used>>
    /\ UNCHANGED queryVars

\* The summary (or the exception) has gone to the client.
UploadReturn ==
    /\ up.pc \in {"done", "failed"}
    /\ up' = IdleUpload
    /\ UNCHANGED <<llm, existing, stored, fs, used>>
    /\ UNCHANGED queryVars

QueryReset ==
    /\ hits' = <<>>
    /\ hit_i' = 0
    /\ context_texts' = <<>>
    /\ retrieved_image_paths' = <<>>
    /\ final_answer' = NO_INFO
    /\ pending' = <<>>
    /\ loaded' = <<>>
    /\ encoded_images' = <<>>

\* Lines 114-138 and 249-252: a request that ends before the hits are
\* looked at.
QueryBegin ==
    /\ ServerFree
    /\ \E cn \in Collections :
         /\ collection_name' = cn
         /\ QueryReset
         /\ \/ /\ LlmMissing(llm)
               /\ calls' = {}
               /\ response' = ErrorResponse(LLM_NOT_INITIALIZED)
            \/ \* embedder.embed raises
               /\ ~LlmMissing(llm)
               /\ calls' = {"embed", "embed_failed"}
               /\ response' = ErrorResponse(OuterExcept(EMBED_FAILED))
            \/ \* query_points raises: no such collection, or the store is down
               /\ ~LlmMissing(llm)
               /\ calls' = {"embed", "search", "search_failed"}
               /\ response' = ErrorResponse(OuterExcept(QDRANT_FAILED))
         /\ pc' = "done"
    /\ UNCHANGED <<llm, existing, stored, fs, up, used>>

\* Lines 114-159 when the embedding and the search succeed.
QuerySearch ==
    /\ ServerFree
    /\ ~LlmMissing(llm)
    /\ \E cn \in Collections :
         /\ cn \in existing
         /\ collection_name' = cn
         /\ \E h \in SearchResults(stored[cn]) :
              /\ hits' = h
              /\ hit_i' = 0
              /\ context_texts' = <<>>
              /\ retrieved_image_paths' = <<>>
              /\ final_answer' = NO_INFO
              /\ pending' = <<>>
              /\ loaded' = <<>>
              /\ encoded_images' = <<>>
         /\ calls' = {"embed", "search"}
         /\ response' = NoResponse
         /\ pc' = "hits"
    /\ UNCHANGED <<llm, existing, stored, fs, up, used>>

\* Lines 162-192: one iteration of the loop over the hits.
QueryHit ==
    /\ pc = "hits"
    /\ hit_i < Len(hits)
    /\ LET hit == hits[hit_i + 1]
       IN /\ context_texts' = AddContext(context_texts, hit)
          /\ retrieved_image_paths' = HitImagePaths(retrieved_image_paths, hit, fs)
          /\ calls' = IF /\ HasPayload(hit)
                         /\ MeetsThreshold(hit.score)
                         /\ JsonLoads(ImagePathsJson(hit)) # <<>>
                      THEN calls \cup {"exists"} ELSE calls
    /\ hit_i' = hit_i + 1
    /\ UNCHANGED <<llm, existing, stored, fs, up, used, pc, collection_name, hits,
                   final_answer, pending, loaded, encoded_images, response>>

\* Lines 195-226: the answer.
QueryGenerate ==
    /\ pc = "hits"
    /\ hit_i = Len(hits)
    /\ \/ /\ NeedsGeneration(context_texts)
          /\ \E llm_response \in LLMResponses : final_answer' = Strip(llm_response)
          /\ calls' = calls \cup {"llm"}
       \/ \* llm.invoke raises
          /\ NeedsGeneration(context_texts)
          /\ final_answer' = FallbackAnswer(context_texts)
          /\ calls' = calls \cup {"llm", "llm_failed"}
       \/ /\ ~NeedsGeneration(context_texts)
          /\ final_answer' = NO_INFO
          /\ calls' = calls
    /\ pending' = retrieved_image_paths
    /\ pc' = "load"
    /\ UNCHANGED <<llm, existing, stored, fs, up, used, collection_name, hits, hit_i,
                   context_texts, retrieved_image_paths, loaded, encoded_images,
                   response>>

\* Lines 232-242: one iteration of the loop over the image paths; a set is
\* iterated in no particular order.
QueryLoadImage ==
    /\ pc = "load"
    /\ \E i \in DOMAIN pending :
         LET img_path_str == pending[i]
             outcome == LoadOutcome(fs, img_path_str)
         IN /\ pending' = RemoveAt(pending, i)
            /\ loaded' = IF outcome = "read" THEN Append(loaded, img_path_str)
                         ELSE loaded
            /\ encoded_images' = IF outcome = "read"
                                 THEN Append(encoded_images,
                                             B64Encode(fs[img_path_str]))
                                 ELSE encoded_images
            /\ calls' = IF outcome = "read" THEN calls \cup {"open"} ELSE calls
            /\ pc' = IF outcome = "raise" THEN "done" ELSE pc
            /\ response' = IF outcome = "raise"
                           THEN ErrorResponse(OuterExcept(FILE_NOT_FOUND))
                           ELSE response
    /\ UNCHANGED <<llm, existing, stored, fs, up, used, collection_name, hits, hit_i,
                   context_texts, retrieved_image_paths, final_answer>>

\* Line 246
QueryReturn ==
    /\ pc = "load"
    /\ pending = <<>>
    /\ response' = OkResponse(final_answer, encoded_images)
    /\ pc' = "done"
    /\ UNCHANGED <<llm, existing, stored, fs, up, used, collection_name, hits, hit_i,
                   context_texts, retrieved_image_paths, final_answer, pending,
                   loaded, encoded_images, calls>>

\* The response has gone to the client.
QueryEnd ==
    /\ pc = "done"
    /\ pc' = "idle"
    /\ QueryReset
    /\ calls' = {}
    /\ response' = NoResponse
    /\ UNCHANGED <<llm, existing, stored, fs, up, used, collection_name>>

\* ----------------------------------------------------------- others
\* main.py create_collection_endpoint: the collection exists afterwards,
\* or ensure_collection raises and the store is left as it is (status 500).
\* It is a plain `def`: it runs in the thread pool, at any moment.
CreateCollection ==
    /\ \E c \in Collections, fault \in BOOLEAN :
         LET result == StoreCreateCollection(existing, c, fault)
         IN IF EnsureRaises(result)
            THEN UNCHANGED storeVars
            ELSE /\ existing' = EnsureCollection(existing, c)
                 /\ stored' = EnsurePoints(existing, stored, c)
    /\ UNCHANGED <<llm, fs, up, used>>
    /\ UNCHANGED queryVars

\* A file of the image directory is deleted from outside the program.
DeleteFile ==
    /\ \E p \in DOMAIN fs : fs' = [x \in DOMAIN fs \ {p} |-> fs[x]]
    /\ UNCHANGED <<llm, existing, stored, up, used>>
    /\ UNCHANGED queryVars

Next ==
    \/ UploadBegin
    \/ UploadPage
    \/ UploadPageFails
    \/ UploadFinish
    \/ UploadReturn
    \/ QueryBegin
    \/ QuerySearch
    \/ QueryHit
    \/ QueryGenerate
    \/ QueryLoadImage
    \/ QueryReturn
    \/ QueryEnd
    \/ CreateCollection
    \/ DeleteFile

Spec == Init /\ [][Next]_vars

\* ------------------------------------------------------------ properties
\* The search of the request in progress returned normally.
SearchSucceeded ==
    /\ pc \in {"hits", "load", "done"}
    /\ "search" \in calls
    /\ "search_failed" \notin calls

\* The image paths recorded in the payload of a hit.
PayloadPaths(hit) == Range(hit.payload.associated_image_paths.json)

\* The image paths of the first n hits whose score is at or above the
\* threshold.
ThresholdPaths(n) ==
    UNION {PayloadPaths(hits[i]) : i \in {j \in 1..n : hits[j].score >= SCORE_THRESHOLD}}

\* The texts of the first n hits, in the order of the search result.
HitTexts(n) == [i \in 1..n |-> hits[i].payload.text]

NoDuplicates(s) == \A i, j \in DOMAIN s : s[i] = s[j] => i = j

\* C1: after each processed hit, the image candidates are exactly the
\* existing image files of the processed hits whose score is at or above
\* SCORE_THRESHOLD (equality included); a hit below the threshold adds
\* none, and every image read for the response belongs to such a hit.
C1_ThresholdGating ==
    SearchSucceeded =>
        /\ Range(retrieved_image_paths) \subseteq ThresholdPaths(hit_i)
        /\ \A p \in ThresholdPaths(hit_i) \cap DOMAIN fs :
               p \in Range(retrieved_image_paths)
        /\ Range(loaded) \subseteq ThresholdPaths(hit_i)
        /\ response.status = 200 => Len(response.images) = Len(loaded)

\* A finished request in which a hit scoring exactly the threshold gave
\* the returned image while another hit of the result scored below it.
C1_Witness ==
    /\ pc = "done"
    /\ response.status = 200
    /\ \E i, j \in DOMAIN hits :
         /\ hits[i].score = SCORE_THRESHOLD
         /\ hits[j].score < SCORE_THRESHOLD
         /\ PayloadPaths(hits[j]) # {}
         /\ PayloadPaths(hits[i]) \cap Range(loaded) # {}
         /\ \A h \in DOMAIN hits : hits[h].score <= SCORE_THRESHOLD
    /\ Len(response.images) = 1

\* C2: the context holds the text of every processed hit, whatever its
\* score, in the order of the search result.
C2_AllHitTextsInOrder ==
    SearchSucceeded => context_texts = HitTexts(hit_i)

\* A finished request whose two hits both scored below the threshold and
\* came back in an order other than that of their ids.
C2_Witness ==
    /\ pc = "done"
    /\ response.status = 200
    /\ Len(hits) = 2
    /\ hits[1].score < SCORE_THRESHOLD
    /\ hits[1].id > hits[2].id
    /\ Len(context_texts) = 2

\* C3: no image path is read twice for one response, and the response
\* never has more images than there are distinct image paths among the
\* hits at or above the threshold.
C3_ImageDedup ==
    SearchSucceeded =>
        /\ NoDuplicates(retrieved_image_paths)
        /\ NoDuplicates(loaded)
        /\ Len(loaded) <= Cardinality(ThresholdPaths(hit_i))
        /\ response.status = 200 =>
               Len(response.images) <= Cardinality(ThresholdPaths(Len(hits)))

\* A response with exactly one image although two hits at or above the
\* threshold carry its path.
C3_Witness ==
    /\ pc = "done"
    /\ response.status = 200
    /\ Len(response.images) = 1
    /\ \E i, j \in DOMAIN hits :
         /\ i # j
         /\ hits[i].score >= SCORE_THRESHOLD
         /\ hits[j].score >= SCORE_THRESHOLD
         /\ PayloadPaths(hits[i]) \cap PayloadPaths(hits[j]) \cap Range(loaded) # {}

\* C4: a request on an existing collection without points, whose search
\* returned normally, never invokes the LLM and ends with status 200, the
\* fixed no-information answer and no images.
C4_EmptyCollection ==
    (SearchSucceeded /\ stored[collection_name] = <<>>) =>
        /\ hits = <<>>
        /\ "llm" \notin calls
        /\ pc \in {"load", "done"} => final_answer = NO_INFO
        /\ pc = "done" => response = OkResponse(NO_INFO, <<>>)

\* The answer of such a request while images of an earlier upload are on
\* file although the collection holds no point.
C4_Witness ==
    /\ pc = "done"
    /\ DOMAIN fs # {}
    /\ SearchSucceeded
    /\ collection_name \in existing
    /\ stored[collection_name] = <<>>
    /\ response.status = 200
    /\ response.answer = NO_INFO

\* C5: when llm.invoke raised, the request still ends with status 200;
\* the answer is the fallback notice followed by the texts of all hits
\* joined by the separator, and the images are those of the hits at or
\* above the threshold whose files exist, as on the successful path.
C5_LlmFailureFallback ==
    (pc \in {"load", "done"} /\ "llm_failed" \in calls) =>
        /\ context_texts # <<>>
        /\ final_answer = <<FALLBACK_PREFIX>> \o Join(SEPARATOR, HitTexts(Len(hits)))
        /\ pc = "done" =>
               /\ response.status = 200
               /\ response.answer = final_answer
               /\ Len(response.images) = Len(loaded)
               /\ Range(loaded) \subseteq ThresholdPaths(Len(hits))
               /\ \A p \in ThresholdPaths(Len(hits)) \cap DOMAIN fs :
                      p \in Range(loaded)

\* A fallback answer over two hits that is returned together with an image.
C5_Witness ==
    /\ pc = "done"
    /\ "llm_failed" \in calls
    /\ Len(hits) = 2
    /\ response.status = 200
    /\ Len(response.images) = 1

\* C6: while the LLM handle is None, a request invokes neither the
\* embedder, the search, the file system nor the LLM, never gets past the
\* initial check, and ends with the error that says so.
C6_LlmNotInitialized ==
    llm = "none" =>
        /\ pc \in {"idle", "done"}
        /\ calls = {}
        /\ loaded = <<>>
        /\ pc = "done" =>
               /\ response.status = 500
               /\ response.detail =
                      <<"LLM (for query augmentation) is not initialized. Check backend logs.">>
               /\ response.answer = <<>>
               /\ response.images = <<>>

\* The request refused although the collection holds points to search.
C6_Witness ==
    /\ llm = "none"
    /\ pc = "done"
    /\ response.status = 500
    /\ stored[collection_name] # <<>>

\* C7 (as the code has it): when embedding the query raised, the request
\* ends with status 500, "Query processing failed: " and the embedder's
\* message, and neither the search nor the LLM was invoked.
C7_EmbedFailure ==
    (pc = "done" /\ "embed_failed" \in calls) =>
        /\ response.status = 500
        /\ response.detail = <<"Query processing failed: ", "embedding_error">>
        /\ "search" \notin calls
        /\ "llm" \notin calls
        /\ hits = <<>>

\* C7 as stated: the same with a status of the 503 class.
C7_Original ==
    (pc = "done" /\ "embed_failed" \in calls) =>
        /\ response.status = 503
        /\ "search" \notin calls
        /\ "llm" \notin calls

\* The embedding failure on a collection that holds points.
C7_Witness ==
    /\ pc = "done"
    /\ "embed_failed" \in calls
    /\ response.status = 500
    /\ stored[collection_name] # <<>>

\* C8: when the search raised, the client receives status 503, and the
\* response differs from the no-results answer and from the response to
\* an embedding failure.
C8_SearchFailure503 ==
    (pc = "done" /\ "search_failed" \in calls) =>
        /\ response.status = 503
        /\ response # OkResponse(NO_INFO, <<>>)
        /\ response # ErrorResponse(OuterExcept(EMBED_FAILED))

\* C9: a request whose search returned normally ends with status 200
\* whatever files are missing; the images are those of the hits at or
\* above the threshold whose files were still there when read, every such
\* file that still exists is among them, and the answer is the one made
\* from the context.
C9_MissingImageOmitted ==
    (pc = "done" /\ SearchSucceeded) =>
        /\ response.status = 200
        /\ response.answer = final_answer
        /\ Len(response.images) = Len(loaded)
        /\ Range(loaded) \subseteq Range(retrieved_image_paths)
        /\ Range(retrieved_image_paths) \subseteq ThresholdPaths(Len(hits))
        /\ \A p \in ThresholdPaths(Len(hits)) \cap DOMAIN fs : p \in Range(loaded)
        /\ \/ final_answer = NO_INFO /\ hits = <<>>
           \/ final_answer = <<LLM_TEXT>> /\ hits # <<>>
           \/ /\ final_answer = <<FALLBACK_PREFIX>> \o Join(SEPARATOR, HitTexts(Len(hits)))
              /\ hits # <<>>

\* A successful response without the image that was a candidate when its
\* hit was processed and was deleted before it could be read.
C9_Witness ==
    /\ pc = "done"
    /\ response.status = 200
    /\ response.answer = <<LLM_TEXT>>
    /\ \E p \in Range(retrieved_image_paths) :
         /\ p \notin DOMAIN fs
         /\ p \notin Range(loaded)
    /\ response.images = <<>>

\* The chunks whose embedding succeeded, in call order.
Succeeded == SelectSeq(up.embedded, LAMBDA e : e.ok)

\* C10: a failed embedding never fails the upload; the batch holds, in
\* order, exactly the chunks whose embedding succeeded, every chunk of a
\* page is attempted, the batch is what the collection holds after the
\* upsert, and chunks_stored is the number of successes.
C10_PartialIngestion ==
    /\ up.pc = "failed" =>
           up.error \in {"ensure_collection", "parse_pdf", "page", "upsert"}
    /\ up.pc \in {"pages", "done"} =>
           /\ Len(up.points) = Len(Succeeded)
           /\ up.total_chunks = Len(Succeeded)
           /\ \A i \in DOMAIN up.points :
                  /\ up.points[i].payload.text = Succeeded[i].content
                  /\ up.points[i].payload.page_number = Succeeded[i].page_number
           /\ LET on_page == SelectSeq(up.embedded,
                                       LAMBDA e : e.page_number = up.page_num - 1)
              IN Len(on_page) = NumPieces(up.page)
    /\ up.pc = "done" =>
           /\ up.result.chunks_stored = Len(Succeeded)
           /\ \A i \in DOMAIN up.points :
                  /\ up.points[i].id \in DOMAIN stored[up.collection]
                  /\ stored[up.collection][up.points[i].id].payload =
                         up.points[i].payload

\* An upload that returned its summary after the first chunk failed and
\* the second was stored.
C10_Witness ==
    /\ up.pc = "done"
    /\ Len(up.embedded) = 2
    /\ ~up.embedded[1].ok
    /\ up.embedded[2].ok
    /\ up.result.chunks_stored = 1
    /\ Cardinality(DOMAIN stored[up.collection]) >= 1

\* C11: an upload calls client.upsert at most once, and only when the page
\* loop is over; the batch of an upload that returned is non-empty exactly
\* when the call was made; and the points of a collection change only in
\* the step that ends the page loop of an upload into it, so that nothing
\* of a document is stored while its pages are being processed.
C11_SingleBulkUpsert ==
    /\ [](/\ up.upserts \in {0, 1}
          /\ up.pc \in {"idle", "pages"} => up.upserts = 0
          /\ up.pc = "done" => (up.upserts = 1 <=> up.points # <<>>)
          /\ up.upserts = 1 => up.points # <<>>)
    /\ [][\A c \in Collections :
             (c \in existing /\ stored'[c] # stored[c]) =>
                 /\ up.pc = "pages"
                 /\ up'.pc = "done"
                 /\ up.collection = c
                 /\ up'.upserts = 1
                 /\ stored'[c] = Upsert(stored[c], up.points)]_vars

\* The upload of a two-page document that returned after one upsert with
\* a point of each page, the collection holding them.
C11_Witness ==
    /\ up.pc = "done"
    /\ up.upserts = 1
    /\ up.page_num = 2
    /\ \E i, j \in DOMAIN up.points :
         /\ up.points[i].payload.page_number = 0
         /\ up.points[j].payload.page_number = 1
    /\ Cardinality(DOMAIN stored[up.collection]) = 2

\* The number of embedder.embed calls of the upload that succeeded.
NumSucceeded == Len(SelectSeq(up.embedded, LAMBDA e : e.ok))

\* C12 (as the code has it): an upload that returned after a page with
\* text has attempted at least one chunk, and stores at least one chunk
\* when at least one embedding succeeded, none when every embedding
\* failed; an upload whose pages were all blank returns the summary with
\* zero chunks, makes no upsert, and fails only if the collection, the
\* parsing or the reading of a page fails.
C12_NonBlankStoresChunk ==
    /\ up.pc = "done" =>
           /\ up.nonblank >= 1 => Len(up.embedded) >= 1
           /\ (up.nonblank >= 1 /\ NumSucceeded >= 1) =>
                  /\ up.result.chunks_stored >= 1
                  /\ Cardinality(DOMAIN stored[up.collection]) >= 1
           /\ (up.nonblank >= 1 /\ NumSucceeded = 0) =>
                  up.result.chunks_stored = 0
           /\ up.nonblank = 0 =>
                  /\ up.result = Summary(up.file_name, 0, up.total_images)
                  /\ up.points = <<>>
                  /\ up.upserts = 0
    /\ (up.pc = "failed" /\ up.nonblank = 0) =>
           up.error \in {"ensure_collection", "parse_pdf", "page"}

\* C12 as stated: whenever a page has text the returned summary counts at
\* least one chunk.
C12_Original ==
    up.pc = "done" =>
        /\ up.nonblank >= 1 => up.result.chunks_stored >= 1
        /\ up.nonblank = 0 => up.result.chunks_stored = 0

\* The upload of a document with a blank page and a page with text that
\* returned with a chunk stored.
C12_Witness ==
    /\ up.pc = "done"
    /\ up.page_num = 2
    /\ up.nonblank = 1
    /\ NumSucceeded >= 1
    /\ up.result.chunks_stored >= 1

\* The store answered the ensure_collection of the upload in progress by
\* raising "already exists".
AnsweredAlreadyExists ==
    /\ up.ensured.raised
    /\ \E i \in DOMAIN up.ensured.message : up.ensured.message[i] = " already exists"

\* C13: ensure_collection fails exactly when the store raised something
\* other than "already exists", and then the upload fails with it; in
\* every other case, the collection being new or not, the call succeeds
\* and the collection exists.  No step removes a collection or gives
\* points to one it creates, and the points of an existing collection
\* change only by the upsert that ends an upload.
C13_IdempotentCreation ==
    /\ [](up.pc # "idle" =>
             /\ up.error = "ensure_collection" <=>
                    (up.ensured.raised /\ ~AnsweredAlreadyExists)
             /\ up.error = "ensure_collection" => up.pc = "failed"
             /\ up.error # "ensure_collection" => up.collection \in existing)
    /\ [][/\ existing \subseteq existing'
          /\ \A c \in existing' \ existing : stored'[c] = <<>>
          /\ \A c \in existing :
                 stored'[c] # stored[c] => (up.pc = "pages" /\ up'.pc = "done")
          /\ (up.pc = "idle" /\ up'.pc # "idle") =>
                 \A c \in existing : stored'[c] = stored[c]]_vars

\* An upload in progress whose ensure_collection met a collection that
\* already held points and went on.
C13_Witness ==
    /\ up.pc = "pages"
    /\ AnsweredAlreadyExists
    /\ up.collection \in existing
    /\ stored[up.collection] # <<>>

\* C14: the points an upload has built carry the ids 1, 2, ... in the
\* order they were built, one per chunk whose embedding succeeded, and the
\* chunk_index of each is its id minus 1.
C14_SequentialIds ==
    /\ Len(up.points) = NumSucceeded
    /\ \A i \in DOMAIN up.points :
           /\ up.points[i].id = i
           /\ up.points[i].payload.chunk_index = i - 1
    /\ \A i, j \in DOMAIN up.points :
           up.points[i].id = up.points[j].id => i = j

\* Two points with ids 1 and 2 built after the first chunk of the
\* document failed.
C14_Witness ==
    /\ up.pc = "done"
    /\ Len(up.embedded) = 3
    /\ ~up.embedded[1].ok
    /\ Len(up.points) = 2
    /\ up.points[2].id = 2
    /\ DOMAIN stored[up.collection] = {1, 2}

Max(a, b) == IF a >= b THEN a ELSE b

\* C15: every upload counts its chunks from zero, so its n points have the
\* ids 1..n whatever the collection holds.  The upsert of an upload into
\* a collection of k points leaves Max(k, n) points: the ids 1..n carry
\* the payloads of this upload, those stored under these ids before are
\* gone, and the ids above n keep what they had.
C15_IdsCollideAcrossUploads ==
    /\ [](/\ (up.pc = "pages" /\ up.embedded = <<>>) => up.total_chunks = 0
          /\ \A c \in Collections :
                 DOMAIN stored[c] = 1..Cardinality(DOMAIN stored[c]))
    /\ [][(up.pc = "pages" /\ up'.pc = "done") =>
             LET c == up.collection
                 n == Len(up.points)
                 k == Cardinality(DOMAIN stored[c])
             IN /\ DOMAIN stored'[c] = 1..Max(k, n)
                /\ \A id \in 1..n :
                       stored'[c][id].payload = up.points[id].payload
                /\ \A id \in (n + 1)..k : stored'[c][id] = stored[c][id]]_vars

\* After an upload of two chunks and one of one chunk of another document
\* into the same collection, the collection holds two points: id 1 is the
\* later document's and id 2 the earlier one's.
C15_Witness ==
    /\ up.pc = "done"
    /\ Len(up.points) = 1
    /\ DOMAIN stored[up.collection] = {1, 2}
    /\ stored[up.collection][1].payload = up.points[1].payload
    /\ stored[up.collection][1].payload.text[1].v # stored[up.collection][2].payload.text[1].v

\* The ordinals (from 0) of the images of a page that can be extracted.
Extractable(pg) == {i \in 0..(Len(pg.images) - 1) : pg.images[i + 1].present}

\* The file name extract_images_from_page gives image i of page q.
ExpectedPath(q, i, pg) ==
    [dir |-> "./stored_images",
     name |-> [base |-> up.file_name[1], page |-> q, img |-> i,
               ext |-> pg.images[i + 1].ext]]

IsBlankPage(pg) == \A i \in DOMAIN pg.text : pg.text[i] = WS

\* The points in `points` whose path list names the path p.
Referencing(points, p) ==
    {i \in DOMAIN points :
        p \in Range(points[i].payload.associated_image_paths.json)}

\* C16 (as the code has it): every point of an upload lists exactly the
\* paths of the extractable images of its own page, in ordinal order; the
\* images of every page, blank or not, are counted and were written when
\* the page was processed; no point of the upload is built from a blank
\* page, so no point of the upload names an image of a blank page.
C16_PageGranularImages ==
    /\ [](up.pc \in {"pages", "done"} =>
             /\ \A n \in DOMAIN up.points :
                    LET q == up.points[n].payload.page_number
                        pg == up.doc[q + 1]
                        paths == up.points[n].payload.associated_image_paths.json
                    IN /\ ~IsBlankPage(pg)
                       /\ Range(paths) = {ExpectedPath(q, i, pg) : i \in Extractable(pg)}
                       /\ Len(paths) = Cardinality(Extractable(pg))
                       /\ \A a, b \in DOMAIN paths :
                              a < b => paths[a].name.img < paths[b].name.img
                       /\ \A a \in DOMAIN paths : paths[a].name.page = q
             /\ \A q \in 0..(Len(up.doc) - 1) :
                    IsBlankPage(up.doc[q + 1]) =>
                        \A i \in Extractable(up.doc[q + 1]) :
                            Referencing(up.points, ExpectedPath(q, i, up.doc[q + 1])) = {}
             /\ up.pc = "done" =>
                    /\ \A n \in DOMAIN up.points :
                           stored[up.collection][n].payload.associated_image_paths =
                               up.points[n].payload.associated_image_paths
                    /\ up.result.images_stored = up.total_images)
    /\ [][(up.pc = "pages" /\ up'.pc = "pages" /\ up'.page_num = up.page_num + 1) =>
             LET pg == up'.page
             IN /\ up'.total_images = up.total_images + Cardinality(Extractable(pg))
                /\ \A i \in Extractable(pg) :
                       /\ ExpectedPath(up.page_num, i, pg) \in DOMAIN fs'
                       /\ fs'[ExpectedPath(up.page_num, i, pg)] = pg.images[i + 1].data]_vars

\* C16 as stated in its last part: an image of a blank page of an upload
\* that returned is named by no point of the store, so that no query can
\* return it.
C16_Original ==
    up.pc = "done" =>
        \A q \in 0..(Len(up.doc) - 1) :
            IsBlankPage(up.doc[q + 1]) =>
                \A i \in Extractable(up.doc[q + 1]) :
                    \A c \in Collections :
                        \A id \in DOMAIN stored[c] :
                            ExpectedPath(q, i, up.doc[q + 1]) \notin
                                Range(stored[c][id].payload.associated_image_paths.json)

\* An upload that returned with an image counted and on file for its
\* blank first page and a point, with its own image, for its second.
C16_Witness ==
    /\ up.pc = "done"
    /\ Len(up.doc) = 2
    /\ IsBlankPage(up.doc[1])
    /\ Extractable(up.doc[1]) = {0}
    /\ ExpectedPath(0, 0, up.doc[1]) \in DOMAIN fs
    /\ Extractable(up.doc[2]) = {0}
    /\ Len(up.points) = 1
    /\ up.points[1].payload.associated_image_paths.json = <<ExpectedPath(1, 0, up.doc[2])>>
    /\ up.result.images_stored = 2

\* The path p is named by a point of collection c.
NamedInStore(c, p) ==
    \E id \in DOMAIN stored[c] :
        p \in Range(stored[c][id].payload.associated_image_paths.json)

C18_NoRollback ==
    /\ [](up.pc = "failed" =>
             /\ up.result = NoSummary
             /\ up.error # "ensure_collection" => up.collection \in existing
             /\ up.error \in {"ensure_collection", "parse_pdf"} => up.written = {})
    /\ [][/\ (up.pc # "failed" /\ up'.pc = "failed") =>
                 /\ stored' = stored
                 /\ DOMAIN fs \subseteq DOMAIN fs'
                 /\ up.written \subseteq up'.written
                 /\ up'.written \ up.written \subseteq DOMAIN fs'
                 /\ existing \subseteq existing'
          /\ (up.pc = "failed" /\ up'.pc # "failed") =>
                 /\ up' = IdleUpload
                 /\ fs' = fs
                 /\ stored' = stored
                 /\ existing' = existing
          /\ DOMAIN fs' # DOMAIN fs \cup DOMAIN fs' =>
                 (up' = up /\ stored' = stored /\ existing' = existing)]_vars

\* C18 as stated in its last part: the files an upload wrote before it
\* failed are named by no point of the store.
C18_Original ==
    up.pc = "failed" =>
        \A p \in up.written : \A c \in Collections : ~NamedInStore(c, p)

\* An upload that failed on its second page, or at the upsert after it,
\* into a collection it created and that holds nothing, the image of its
\* first page on file.
C18_Witness ==
    /\ up.pc = "failed"
    /\ up.error \in {"page", "upsert"}
    /\ Len(up.doc) = 2
    /\ ~up.ensured.raised
    /\ up.collection \in existing
    /\ stored[up.collection] = <<>>
    /\ Extractable(up.doc[1]) = {0}
    /\ ExpectedPath(0, 0, up.doc[1]) \in up.written \cap DOMAIN fs
    /\ fs[ExpectedPath(0, 0, up.doc[1])] = up.doc[1].images[1].data

====
